---------------------------- MODULE Spec2Model ----------------------------
(***************************************************************************)
(* A model of voxblox_ros/src/voxblox_node.cc: the VoxbloxNode that        *)
(* receives point clouds, looks up the sensor pose, hands the cloud to the *)
(* TSDF integrator and publishes point clouds extracted from the TSDF map. *)
(*                                                                         *)
(* Lengths and distances are fixed-point integers in millimetres (the code *)
(* uses float metres): 0.02 m is 20.  A non-finite coordinate (NaN/Inf) is *)
(* a point whose field finite is FALSE.                                    *)
(*                                                                         *)
(* TsdfMap, TsdfBlock and TsdfIntegrator are classes of the library whose  *)
(* source is not part of the node's file; they are modelled from the       *)
(* written specification (sections 3, 4.1, 4.3) and marked so in the map.  *)
(***************************************************************************)
EXTENDS Integers, Sequences, FiniteSets, TLC

(***************************************************************************)
(* Bounds of the model.                                                    *)
(***************************************************************************)
\* Observations that arrive on the "pointcloud" topic in one run.
MaxObs == 2

\* Capacity of the subscriber queue (the node asks for 40, line 31).
queue_size == 1

\* config.tsdf_voxels_per_side (the node sets 16, line 38), scaled down.
tsdf_voxels_per_side == 2

\* Direct calls of the two public publish methods made by a test driver
\* (specification SpecApi only).
MaxApiCalls == 2

(***************************************************************************)
(* Program constants.                                                      *)
(***************************************************************************)
\* config.tsdf_voxel_size = 0.02 (metres), here in millimetres.
tsdf_voxel_size == 20

\* The factor 0.75 of surface_distance_thresh, as the fraction 3/4.
SurfaceThreshNum == 3

SurfaceThreshDen == 4

(***************************************************************************)
(* Colours and points.                                                     *)
(***************************************************************************)
Color(r, g, b, a) == [r |-> r, g |-> g, b |-> b, a |-> a]

Red == Color(255, 0, 0, 255)

Blue == Color(0, 0, 255, 255)

\* A pcl::PointXYZRGB.
PclPoint(x, y, z, c) ==
    [x |-> x, y |-> y, z |-> z, finite |-> TRUE,
     r |-> c.r, g |-> c.g, b |-> c.b, a |-> c.a]

\* A pcl::PointXYZRGB with a non-finite coordinate.
NaNPoint(c) ==
    [x |-> 0, y |-> 0, z |-> 0, finite |-> FALSE,
     r |-> c.r, g |-> c.g, b |-> c.b, a |-> c.a]

P1 == PclPoint(5, 0, 0, Red)

P2 == PclPoint(10, 20, 0, Blue)

P3 == PclPoint(15, 0, 0, Blue)

PNaN == NaNPoint(Red)

\* A sensor_msgs::PointCloud2 as the node reads it: the is_dense flag of the
\* message and its points.
Cloud(dense, pts) == [is_dense |-> dense, points |-> pts]

\* The clouds the sensing collaborator may send.  is_dense is the sender's
\* statement that no point is invalid; nothing makes a sender tell the truth.
Clouds ==
    { Cloud(TRUE, << >>),
      Cloud(FALSE, << PNaN >>),
      Cloud(FALSE, << P1, PNaN, P3 >>),
      Cloud(TRUE, << P2 >>),
      Cloud(TRUE, << P3, PNaN >>) }

\* The sensor poses the TF tree may hold (translations; the rotation is the
\* identity): the pose at the stamp of a message, and the latest known pose.
PoseAtStamp == << 0, 0, 0 >>

LatestPose == << -30, 0, 0 >>

NoPose == << 0, 0, 0 >>

NoMsg == [id |-> 0, cloud |-> Cloud(TRUE, << >>)]


(***************************************************************************)
(* The TSDF map (voxblox/core/tsdf_map.h): a block-sparse grid.            *)
(* A map is a function from the allocated block indices to blocks; a block *)
(* is a function from voxel indices to voxels.                             *)
(***************************************************************************)
Abs(n) == IF n < 0 THEN -n ELSE n

VoxelIndices ==
    (0 .. tsdf_voxels_per_side - 1) \X (0 .. tsdf_voxels_per_side - 1)
        \X (0 .. tsdf_voxels_per_side - 1)

\* A voxel as its block is allocated: never observed.
EmptyVoxel == [distance |-> 0, weight |-> 0, color |-> Color(0, 0, 0, 0)]

NewBlock == [vi \in VoxelIndices |-> EmptyVoxel]

EmptyMap == [index \in {} |-> NewBlock]

getNumberOfAllocatedBlocks(map) == Cardinality(DOMAIN map)

getTsdfVoxelsPerSide == tsdf_voxels_per_side

getTsdfVoxelsPerBlock ==
    tsdf_voxels_per_side * tsdf_voxels_per_side * tsdf_voxels_per_side

getTsdfVoxelSize == tsdf_voxel_size

\* Edge length of a block.
BlockSize == tsdf_voxel_size * tsdf_voxels_per_side

getBlockByIndex(map, index) == map[index]

getTsdfVoxelByVoxelIndex(block, voxel_index) == block[voxel_index]

\* world_coord = block_origin + voxel_index * voxel_size.
getCoordinatesOfTsdfVoxelByVoxelIndex(index, voxel_index) ==
    << index[1] * BlockSize + voxel_index[1] * tsdf_voxel_size,
       index[2] * BlockSize + voxel_index[2] * tsdf_voxel_size,
       index[3] * BlockSize + voxel_index[3] * tsdf_voxel_size >>

\* The block and the voxel index of the voxel with grid coordinate g
\* (block coordinate = floor(coordinate / block edge)).
BlockIndexOf(g) ==
    << g[1] \div tsdf_voxels_per_side, g[2] \div tsdf_voxels_per_side,
       g[3] \div tsdf_voxels_per_side >>

VoxelIndexOf(g) ==
    << g[1] % tsdf_voxels_per_side, g[2] % tsdf_voxels_per_side,
       g[3] % tsdf_voxels_per_side >>

\* Every way to enumerate the blocks of a map after the blocks "new" were
\* inserted: the container gives no ordering guarantee, and an insertion may
\* rehash it.  It is the same sequence until the next insertion.
Enumerations(order, new) ==
    IF new = {} THEN { order }
    ELSE LET all == { order[i] : i \in 1 .. Len(order) } \cup new
         IN  { s \in [1 .. Cardinality(all) -> all] :
                 \A i, j \in 1 .. Cardinality(all) : i # j => s[i] # s[j] }

(***************************************************************************)
(* The integrator (voxblox/integrator/ray_integrator.h), from its call     *)
(* contract: each point is moved to the world frame and fused, by a        *)
(* weighted running average, into the voxels of its row that lie within    *)
(* the truncation distance (one voxel) of the point along the viewing      *)
(* direction x; blocks are allocated as needed.                            *)
(***************************************************************************)
TruncationDistance == tsdf_voxel_size

\* The point p of the sensor frame in the world frame.
TransformPoint(T, p) == << T[1] + p.x, T[2] + p.y, T[3] + p.z >>

\* Grid coordinates of the voxels a world point w updates.
TouchedVoxels(w) ==
    { << gx, w[2] \div tsdf_voxel_size, w[3] \div tsdf_voxel_size >> :
        gx \in { k \in (w[1] \div tsdf_voxel_size) - 1 ..
                       (w[1] \div tsdf_voxel_size) + 1 :
                   Abs(w[1] - k * tsdf_voxel_size) <= TruncationDistance } }

\* Weighted running average of one channel.
Fuse(old, weight, sample) == (old * weight + sample) \div (weight + 1)

updateTsdfVoxel(voxel, sdf, c) ==
    [distance |-> Fuse(voxel.distance, voxel.weight, sdf),
     weight   |-> voxel.weight + 1,
     color    |-> Color(Fuse(voxel.color.r, voxel.weight, c.r),
                        Fuse(voxel.color.g, voxel.weight, c.g),
                        Fuse(voxel.color.b, voxel.weight, c.b),
                        Fuse(voxel.color.a, voxel.weight, c.a))]

\* The map with the blocks of "indices" allocated.
allocateBlocks(map, indices) ==
    [index \in DOMAIN map \cup indices |->
        IF index \in DOMAIN map THEN map[index] ELSE NewBlock]

\* The map after the world point w with colour c was fused into it.
integrateWorldPoint(map, w, c) ==
    LET touched == TouchedVoxels(w)
        grown   == allocateBlocks(map, { BlockIndexOf(g) : g \in touched })
    IN  [index \in DOMAIN grown |->
            [vi \in VoxelIndices |->
                LET g == << index[1] * tsdf_voxels_per_side + vi[1],
                            index[2] * tsdf_voxels_per_side + vi[2],
                            index[3] * tsdf_voxels_per_side + vi[3] >>
                IN  IF g \in touched
                    THEN updateTsdfVoxel(grown[index][vi],
                                         w[1] - g[1] * tsdf_voxel_size, c)
                    ELSE grown[index][vi]]]

\* Where a point with a non-finite coordinate may land: the conversion of a
\* non-finite float to a grid index is undefined, so the point is either
\* lost or fused at some unrelated place of the grid.
GarbageWorldPoints == { << -25, 0, 0 >> }

(***************************************************************************)
(* The extraction loops of the node.                                       *)
(***************************************************************************)
\* The order in which the three nested loops visit the voxel indices of a
\* block: x outermost, z innermost, each from 0 to vps - 1.
VoxelLoop ==
    [i \in 1 .. getTsdfVoxelsPerBlock |->
        << (i - 1) \div (getTsdfVoxelsPerSide * getTsdfVoxelsPerSide),
           ((i - 1) \div getTsdfVoxelsPerSide) % getTsdfVoxelsPerSide,
           (i - 1) % getTsdfVoxelsPerSide >>]

\* const float surface_distance_thresh = getTsdfVoxelSize() * 0.75.
surface_distance_thresh ==
    (getTsdfVoxelSize * SurfaceThreshNum) \div SurfaceThreshDen

\* Mutant: the weight test is missing.
DenseTest_noWeight(voxel) == TRUE

\* if (weight > 0.0)
DenseTest(voxel) == voxel.weight > 0

\* Mutant: the comparison is not strict.
SurfaceTest_notStrict(voxel) ==
    Abs(voxel.distance) <= surface_distance_thresh /\ voxel.weight > 0

\* Mutant: the weight test is missing.
SurfaceTest_noWeight(voxel) == Abs(voxel.distance) < surface_distance_thresh

\* Mutant: the distance test is missing.
SurfaceTest_noDistance(voxel) == voxel.weight > 0

\* if (std::abs(distance) < surface_distance_thresh && weight > 0)
SurfaceTest(voxel) ==
    Abs(voxel.distance) < surface_distance_thresh /\ voxel.weight > 0

\* The pcl::PointXYZI pushed for a voxel.
DensePoint(map, index, voxel_index) ==
    LET voxel == getTsdfVoxelByVoxelIndex(getBlockByIndex(map, index),
                                          voxel_index)
        coord == getCoordinatesOfTsdfVoxelByVoxelIndex(index, voxel_index)
    IN  [x |-> coord[1], y |-> coord[2], z |-> coord[3],
         intensity |-> voxel.distance]

\* The pcl::PointXYZRGB pushed for a voxel.
SurfacePoint(map, index, voxel_index) ==
    LET voxel == getTsdfVoxelByVoxelIndex(getBlockByIndex(map, index),
                                          voxel_index)
        coord == getCoordinatesOfTsdfVoxelByVoxelIndex(index, voxel_index)
    IN  [x |-> coord[1], y |-> coord[2], z |-> coord[3],
         r |-> voxel.color.r, g |-> voxel.color.g, b |-> voxel.color.b]

\* The points one block adds to the dense cloud.
DensePointsOfBlock(map, index) ==
    LET hit == SelectSeq(VoxelLoop,
                   LAMBDA vi : DenseTest(getTsdfVoxelByVoxelIndex(
                                   getBlockByIndex(map, index), vi)))
    IN  [i \in 1 .. Len(hit) |-> DensePoint(map, index, hit[i])]

\* The points one block adds to the surface cloud.
SurfacePointsOfBlock(map, index) ==
    LET hit == SelectSeq(VoxelLoop,
                   LAMBDA vi : SurfaceTest(getTsdfVoxelByVoxelIndex(
                                   getBlockByIndex(map, index), vi)))
    IN  [i \in 1 .. Len(hit) |-> SurfacePoint(map, index, hit[i])]

RECURSIVE DenseCloudFrom(_, _, _)
DenseCloudFrom(map, blocks, k) ==
    IF k > Len(blocks) THEN << >>
    ELSE DensePointsOfBlock(map, blocks[k]) \o DenseCloudFrom(map, blocks, k + 1)

RECURSIVE SurfaceCloudFrom(_, _, _)
SurfaceCloudFrom(map, blocks, k) ==
    IF k > Len(blocks) THEN << >>
    ELSE SurfacePointsOfBlock(map, blocks[k])
             \o SurfaceCloudFrom(map, blocks, k + 1)

\* The cloud publishAllUpdatedTsdfVoxels builds from a map whose blocks
\* getAllAllocatedBlocks lists as "blocks".
DenseCloud(map, blocks) == DenseCloudFrom(map, blocks, 1)

\* Mutant: a map without blocks yields a placeholder point at the origin.
SurfaceCloud_placeholder(map, blocks) ==
    IF blocks = << >>
    THEN << [x |-> 0, y |-> 0, z |-> 0, r |-> 0, g |-> 0, b |-> 0] >>
    ELSE SurfaceCloudFrom(map, blocks, 1)

\* The cloud publishTsdfSurfacePoints builds.
SurfaceCloud(map, blocks) == SurfaceCloudFrom(map, blocks, 1)

(***************************************************************************)
(* Conversion of the incoming message (lines 98-117).                      *)
(***************************************************************************)
\* pcl_isfinite of the three coordinates of a point.
IsFinitePoint(p) == p.finite

\* pcl::fromROSMsg: the pcl cloud carries the is_dense flag of the message
\* and its points.
fromROSMsg(cloud) == [is_dense |-> cloud.is_dense, points |-> cloud.points]

\* pcl::removeNaNFromPointCloud (pcl/filters/impl/filter.hpp): a cloud that
\* says it is dense is copied as it is ("if the data is dense, we don't need
\* to check for NaN"); otherwise the points with a non-finite x, y or z are
\* dropped, the order of the others is kept and the result is dense.
removeNaNFromPointCloud(cloud_in) ==
    IF cloud_in.is_dense
    THEN cloud_in
    ELSE [is_dense |-> TRUE,
          points |-> SelectSeq(cloud_in.points, IsFinitePoint)]

\* points_C.push_back(Point(x, y, z)) for each point of the pcl cloud.
PointsOf(pointcloud_pcl) ==
    [i \in 1 .. Len(pointcloud_pcl.points) |->
        [x |-> pointcloud_pcl.points[i].x, y |-> pointcloud_pcl.points[i].y,
         z |-> pointcloud_pcl.points[i].z,
         finite |-> pointcloud_pcl.points[i].finite]]

\* colors.push_back(Color(r, g, b, a)) for each point of the pcl cloud.
ColorsOf(pointcloud_pcl) ==
    [i \in 1 .. Len(pointcloud_pcl.points) |->
        Color(pointcloud_pcl.points[i].r, pointcloud_pcl.points[i].g,
              pointcloud_pcl.points[i].b, pointcloud_pcl.points[i].a)]

(***************************************************************************)
(* VoxbloxNode::lookupTransform (lines 248-276).                           *)
(***************************************************************************)
\* Mutant: the failure of the lookup is not reported.
lookupTransform_ignoreFailure(can_transform, at_stamp, at_latest) ==
    [ok |-> TRUE,
     transform |-> IF can_transform THEN PoseAtStamp ELSE LatestPose]

\* can_transform: what tf_listener_.canTransform answers for the time stamp
\* of the message (line 259); at_stamp, at_latest: whether
\* tf_listener_.lookupTransform (line 265) returns, rather than throws, when
\* asked at the stamp and at ros::Time(0).  Only one of the two lookups is
\* made.  ok is what lookupTransform returns, transform what it stores
\* through its last parameter when it returns true.
lookupTransform(can_transform, at_stamp, at_latest) ==
    LET time_to_lookup == IF ~can_transform THEN "latest" ELSE "stamp"
        throws == IF time_to_lookup = "stamp" THEN ~at_stamp ELSE ~at_latest
    IN  [ok |-> ~throws,
         transform |-> IF throws THEN NoPose
                       ELSE IF time_to_lookup = "stamp" THEN PoseAtStamp
                       ELSE LatestPose]

\* What the TF listener may answer.  canTransform and lookupTransform are
\* two calls into the listener, whose buffer its own thread fills and prunes
\* in between: the answer of the first does not bind the second.
TfAnswers == [can : BOOLEAN, exact : BOOLEAN, latest : BOOLEAN]

(***************************************************************************)
(* The state of the node.                                                  *)
(***************************************************************************)
VARIABLES
    pc,              \* where the node's only thread is
    ret,             \* the dispatcher the running callback returns to
    sub_queue,       \* pointcloud_sub_: messages received, not yet handled
    spin_once_left,  \* callbacks ros::spinOnce still has to call
    arrived,         \* messages received so far
    msg,             \* pointcloud_msg of the running callback
    T_G_C,           \* the transform the callback looked up
    points_C,        \* the points handed to the integrator
    colors,          \* the colours handed to the integrator
    next_pt,         \* the point the integrator fuses next
    tsdf_map,        \* tsdf_map_: allocated block index -> block
    block_order,     \* the order getAllAllocatedBlocks lists the blocks in
    sdf_pointcloud,  \* the last message given to sdf_pointcloud_pub_
    api_calls,       \* direct calls of the publish methods (SpecApi)
    log              \* history: what the node did, in order

vars ==
    << pc, ret, sub_queue, spin_once_left, arrived, msg, T_G_C, points_C,
       colors, next_pt, tsdf_map, block_order, sdf_pointcloud, api_calls,
       log >>

store == << tsdf_map, block_order >>

locals == << msg, T_G_C, points_C, colors, next_pt >>

\* History records.
\* A lookup.  can: what canTransform answered; returned: the one tf lookup
\* the node made (at the stamp when can, at the latest time otherwise)
\* returned; fallback: the lookup at the stamp threw while the latest
\* transform, which the node did not ask for, was there; ok: what
\* lookupTransform returned.
LookupEv(obs, a, ok) ==
    [ev |-> "lookup", obs |-> obs, can |-> a.can,
     returned |-> IF a.can THEN a.exact ELSE a.latest,
     fallback |-> a.can /\ ~ a.exact /\ a.latest, ok |-> ok]

IntegrateEv(obs, n) == [ev |-> "integrate", obs |-> obs, n |-> n]

\* by: who called the publish method ("constructor", "callback" or
\* "driver"); obs: the id of the message being handled (that of NoMsg when
\* none is).
PublishEv(by, obs, kind, points) ==
    [ev |-> "publish", by |-> by, obs |-> obs, kind |-> kind,
     points |-> points]

(***************************************************************************)
(* The state at line 45: the topics are advertised, the subscription is    *)
(* made (messages may be queued from here on), the map is constructed      *)
(* empty, and the constructor is about to call ros::spinOnce.              *)
(***************************************************************************)
Init ==
    /\ pc = "ctor"
    /\ ret = "spin"
    /\ sub_queue = << >>
    /\ spin_once_left = 0
    /\ arrived = 0
    /\ msg = NoMsg
    /\ T_G_C = NoPose
    /\ points_C = << >>
    /\ colors = << >>
    /\ next_pt = 0
    /\ tsdf_map = EmptyMap
    /\ block_order = << >>
    /\ sdf_pointcloud = [type |-> "none", frame_id |-> "", points |-> << >>]
    /\ api_calls = 0
    /\ log = << >>

(***************************************************************************)
(* The two publish methods.                                                *)
(***************************************************************************)
\* Mutant: the voxels published are marked as not updated (weight 0).
publishAllUpdatedTsdfVoxels_marks(by) ==
    /\ sdf_pointcloud' =
           [type |-> "PointXYZI", frame_id |-> "world",
            points |-> DenseCloud(tsdf_map, block_order)]
    /\ log' = Append(log, PublishEv(by, msg.id, "dense",
                                    DenseCloud(tsdf_map, block_order)))
    /\ tsdf_map' = [index \in DOMAIN tsdf_map |->
                       [vi \in VoxelIndices |->
                           [tsdf_map[index][vi] EXCEPT !.weight = 0]]]
    /\ UNCHANGED block_order

\* VoxbloxNode::publishAllUpdatedTsdfVoxels (lines 132-185).
publishAllUpdatedTsdfVoxels(by) ==
    /\ sdf_pointcloud' =
           [type |-> "PointXYZI", frame_id |-> "world",
            points |-> DenseCloud(tsdf_map, block_order)]
    /\ log' = Append(log, PublishEv(by, msg.id, "dense",
                                    DenseCloud(tsdf_map, block_order)))
    /\ UNCHANGED << tsdf_map, block_order >>

\* VoxbloxNode::publishTsdfSurfacePoints (lines 187-245).
publishTsdfSurfacePoints(by) ==
    /\ sdf_pointcloud' =
           [type |-> "PointXYZRGB", frame_id |-> "world",
            points |-> SurfaceCloud(tsdf_map, block_order)]
    /\ log' = Append(log, PublishEv(by, msg.id, "surface",
                                    SurfaceCloud(tsdf_map, block_order)))
    /\ UNCHANGED << tsdf_map, block_order >>

(***************************************************************************)
(* The environment: a message arrives on the "pointcloud" topic.  A full   *)
(* subscriber queue drops its oldest message.                              *)
(***************************************************************************)
Arrive ==
    /\ arrived < MaxObs
    /\ \E cloud \in Clouds :
          LET m    == [id |-> arrived + 1, cloud |-> cloud]
              kept == IF Len(sub_queue) >= queue_size
                      THEN Tail(sub_queue) ELSE sub_queue
          IN  sub_queue' = Append(kept, m)
    /\ arrived' = arrived + 1
    /\ UNCHANGED << pc, ret, spin_once_left, locals, store, sdf_pointcloud,
                    api_calls, log >>

(***************************************************************************)
(* The constructor from line 45, and main's ros::spin().                   *)
(***************************************************************************)
\* ros::spinOnce() (line 45) calls the callbacks that are queued now.
SpinOnceBegin ==
    /\ pc = "ctor"
    /\ pc' = "spinOnce"
    /\ spin_once_left' = Len(sub_queue)
    /\ UNCHANGED << ret, sub_queue, arrived, locals, store, sdf_pointcloud,
                    api_calls, log >>

SpinOnceEnd ==
    /\ pc = "spinOnce"
    /\ spin_once_left = 0
    /\ pc' = "ctor_publish"
    /\ UNCHANGED << ret, sub_queue, spin_once_left, arrived, locals, store,
                    sdf_pointcloud, api_calls, log >>

\* publishTsdfSurfacePoints() of the constructor (line 46); main then
\* enters ros::spin() (line 290).
CtorPublish ==
    /\ pc = "ctor_publish"
    /\ publishTsdfSurfacePoints("constructor")
    /\ pc' = "spin"
    /\ UNCHANGED << ret, sub_queue, spin_once_left, arrived, locals,
                    api_calls >>

\* Mutant: a second spinner thread takes the next message while a callback
\* is still running.
Dispatch_concurrent ==
    /\ pc \in {"spin", "lookupTransform", "convert", "integratePointCloud",
               "publish"}
    /\ sub_queue # << >>
    /\ msg' = Head(sub_queue)
    /\ sub_queue' = Tail(sub_queue)
    /\ ret' = "spin"
    /\ pc' = "lookupTransform"
    /\ UNCHANGED << spin_once_left, arrived, T_G_C, points_C, colors, next_pt,
                    store, sdf_pointcloud, api_calls, log >>

\* The spinner (ros::spinOnce of line 45 or ros::spin of line 290) calls
\* insertPointcloudWithTf with the oldest queued message.  There is one
\* thread: it does so only when no callback is running.
Dispatch ==
    /\ pc \in {"spin", "spinOnce"}
    /\ pc = "spinOnce" => spin_once_left > 0
    /\ sub_queue # << >>
    /\ msg' = Head(sub_queue)
    /\ sub_queue' = Tail(sub_queue)
    /\ ret' = pc
    /\ spin_once_left' =
           IF pc = "spinOnce" THEN spin_once_left - 1 ELSE spin_once_left
    /\ pc' = "lookupTransform"
    /\ UNCHANGED << arrived, T_G_C, points_C, colors, next_pt, store,
                    sdf_pointcloud, api_calls, log >>

(***************************************************************************)
(* VoxbloxNode::insertPointcloudWithTf (lines 82-130), step by step.       *)
(***************************************************************************)
\* Lines 85-87: the transform lookup and the test of its result.  Without a
\* transform the callback returns at once.
HandlerLookup ==
    /\ pc = "lookupTransform"
    /\ \E a \in TfAnswers :
          LET found == lookupTransform(a.can, a.exact, a.latest)
          IN  IF found.ok
              THEN /\ T_G_C' = found.transform
                   /\ pc' = "convert"
                   /\ log' = Append(log, LookupEv(msg.id, a, TRUE))
                   /\ UNCHANGED msg
              ELSE /\ T_G_C' = NoPose
                   /\ pc' = ret
                   /\ log' = Append(log, LookupEv(msg.id, a, FALSE))
                   /\ msg' = NoMsg
    /\ UNCHANGED << ret, sub_queue, spin_once_left, arrived, points_C, colors,
                    next_pt, store, sdf_pointcloud, api_calls >>

\* Lines 98-117: the message becomes a pcl cloud, the NaN filter runs, and
\* the points and colours of the cloud are pushed in step.
HandlerConvert ==
    /\ pc = "convert"
    /\ LET pointcloud_pcl == removeNaNFromPointCloud(fromROSMsg(msg.cloud))
       IN  /\ points_C' = PointsOf(pointcloud_pcl)
           /\ colors' = ColorsOf(pointcloud_pcl)
    /\ next_pt' = 1
    /\ pc' = "integratePointCloud"
    /\ UNCHANGED << ret, sub_queue, spin_once_left, arrived, msg, T_G_C, store,
                    sdf_pointcloud, api_calls, log >>

\* Line 120, inside ray_integrator_->integratePointCloud: one point is
\* fused.  A non-finite point is lost or lands somewhere unrelated.
IntegratePoint ==
    /\ pc = "integratePointCloud"
    /\ next_pt <= Len(points_C)
    /\ LET p == points_C[next_pt]
           c == IF next_pt <= Len(colors) THEN colors[next_pt]
                ELSE Color(0, 0, 0, 0)
           outcomes ==
               IF IsFinitePoint(p)
               THEN { integrateWorldPoint(tsdf_map, TransformPoint(T_G_C, p), c) }
               ELSE { tsdf_map } \cup
                    { integrateWorldPoint(tsdf_map, w, c) :
                        w \in GarbageWorldPoints }
       IN  \E m \in outcomes :
              /\ tsdf_map' = m
              /\ block_order' \in
                     Enumerations(block_order, DOMAIN m \ DOMAIN tsdf_map)
    /\ next_pt' = next_pt + 1
    /\ UNCHANGED << pc, ret, sub_queue, spin_once_left, arrived, msg, T_G_C,
                    points_C, colors, sdf_pointcloud, api_calls, log >>

\* integratePointCloud returns (lines 120-122).
IntegrateReturn ==
    /\ pc = "integratePointCloud"
    /\ next_pt > Len(points_C)
    /\ log' = Append(log, IntegrateEv(msg.id, Len(points_C)))
    /\ pc' = "publish"
    /\ UNCHANGED << ret, sub_queue, spin_once_left, arrived, locals, store,
                    sdf_pointcloud, api_calls >>

\* Mutant: the dense cloud is published as well.
ExtractionCycle_denseToo(by) ==
    /\ sdf_pointcloud' =
           [type |-> "PointXYZRGB", frame_id |-> "world",
            points |-> SurfaceCloud(tsdf_map, block_order)]
    /\ log' = log \o << PublishEv(by, msg.id, "dense",
                                  DenseCloud(tsdf_map, block_order)),
                        PublishEv(by, msg.id, "surface",
                                  SurfaceCloud(tsdf_map, block_order)) >>
    /\ UNCHANGED << tsdf_map, block_order >>

\* Lines 123-124: the call of publishAllUpdatedTsdfVoxels is commented out;
\* publishTsdfSurfacePoints is called.
ExtractionCycle(by) == publishTsdfSurfacePoints(by)

\* Lines 123-125: the extraction, and the callback returns.
HandlerPublish ==
    /\ pc = "publish"
    /\ ExtractionCycle("callback")
    /\ pc' = ret
    /\ msg' = NoMsg
    /\ T_G_C' = NoPose
    /\ points_C' = << >>
    /\ colors' = << >>
    /\ next_pt' = 0
    /\ UNCHANGED << ret, sub_queue, spin_once_left, arrived, api_calls >>

Next ==
    \/ Arrive
    \/ SpinOnceBegin
    \/ SpinOnceEnd
    \/ CtorPublish
    \/ Dispatch
    \/ HandlerLookup
    \/ HandlerConvert
    \/ IntegratePoint
    \/ IntegrateReturn
    \/ HandlerPublish

\* The node as main runs it.
Spec == Init /\ [][Next]_vars

(***************************************************************************)
(* The node with a test driver that calls the two public publish methods   *)
(* once the node has handled what it received and waits in ros::spin().    *)
(* Every map the node can build is met there: the messages still to come   *)
(* may all find no transform.                                              *)
(***************************************************************************)
\* The node is idle and nothing is left to receive.
Quiescent == pc = "spin" /\ sub_queue = << >> /\ arrived = MaxObs

ApiPublishDense ==
    /\ Quiescent
    /\ api_calls < MaxApiCalls
    /\ publishAllUpdatedTsdfVoxels("driver")
    /\ api_calls' = api_calls + 1
    /\ UNCHANGED << pc, ret, sub_queue, spin_once_left, arrived, locals >>

ApiPublishSurface ==
    /\ Quiescent
    /\ api_calls < MaxApiCalls
    /\ publishTsdfSurfacePoints("driver")
    /\ api_calls' = api_calls + 1
    /\ UNCHANGED << pc, ret, sub_queue, spin_once_left, arrived, locals >>

NextApi ==
    \/ Next
    \/ ApiPublishDense
    \/ ApiPublishSurface

SpecApi == Init /\ [][NextApi]_vars

(***************************************************************************)
(* Vocabulary of the properties.                                           *)
(***************************************************************************)
XYZ(p) == << p.x, p.y, p.z >>

\* The voxels of the allocated blocks, each as << block index, voxel index >>.
AllocatedVoxels ==
    { << index, vi >> : index \in DOMAIN tsdf_map, vi \in VoxelIndices }

VoxelOf(bv) == tsdf_map[bv[1]][bv[2]]

CoordOf(bv) == getCoordinatesOfTsdfVoxelByVoxelIndex(bv[1], bv[2])

ObservedVoxels == { bv \in AllocatedVoxels : VoxelOf(bv).weight > 0 }

\* The voxels of the surface band.
BandVoxels ==
    { bv \in ObservedVoxels :
        Abs(VoxelOf(bv).distance) < surface_distance_thresh }

\* The places of a cloud that hold a point at the coordinate of voxel bv.
PlacesOf(cloud, bv) ==
    { i \in 1 .. Len(cloud) : XYZ(cloud[i]) = CoordOf(bv) }

\* The voxels a cloud holds a point of.
VoxelSetOf(cloud) ==
    { bv \in AllocatedVoxels : PlacesOf(cloud, bv) # {} }

HandlerPcs == {"lookupTransform", "convert", "integratePointCloud", "publish"}

LastEv == log[Len(log)]

\* The node has just published a cloud of this kind: the map is the one the
\* cloud was built from.
JustPublished(kind) ==
    /\ Len(log) > 0
    /\ LastEv.ev = "publish"
    /\ LastEv.kind = kind

IntegrateEvents == { i \in 1 .. Len(log) : log[i].ev = "integrate" }

PublishEvents(kind) ==
    { i \in 1 .. Len(log) : log[i].ev = "publish" /\ log[i].kind = kind }

\* The cloud is the dense extraction of the current map: one point for each
\* observed voxel, at its coordinate, carrying its distance; nothing else.
DenseExact(cloud) ==
    /\ Len(cloud) = Cardinality(ObservedVoxels)
    /\ \A bv \in ObservedVoxels :
          /\ Cardinality(PlacesOf(cloud, bv)) = 1
          /\ \A i \in PlacesOf(cloud, bv) :
                cloud[i].intensity = VoxelOf(bv).distance
    /\ \A i \in 1 .. Len(cloud) :
          \E bv \in ObservedVoxels : i \in PlacesOf(cloud, bv)

\* The cloud is the surface extraction of the current map: one point for
\* each observed voxel whose |distance| is below the threshold, at its
\* coordinate, carrying its colour; nothing else.
SurfaceExact(cloud) ==
    /\ Len(cloud) = Cardinality(BandVoxels)
    /\ \A bv \in AllocatedVoxels :
          IF VoxelOf(bv).weight > 0
             /\ Abs(VoxelOf(bv).distance) < surface_distance_thresh
          THEN /\ Cardinality(PlacesOf(cloud, bv)) = 1
               /\ \A i \in PlacesOf(cloud, bv) :
                     /\ cloud[i].r = VoxelOf(bv).color.r
                     /\ cloud[i].g = VoxelOf(bv).color.g
                     /\ cloud[i].b = VoxelOf(bv).color.b
          ELSE PlacesOf(cloud, bv) = {}

(***************************************************************************)
(* C1.  In every reachable state of the map the dense extraction           *)
(* (publishAllUpdatedTsdfVoxels) emits exactly one point for each voxel of *)
(* an allocated block with weight > 0, at that voxel's coordinate and with *)
(* its distance as payload, and no other point; the cloud it publishes is  *)
(* that cloud.                                                             *)
(***************************************************************************)
C1_DenseExtractionExact ==
    /\ DenseExact(DenseCloud(tsdf_map, block_order))
    /\ JustPublished("dense") =>
          /\ sdf_pointcloud.type = "PointXYZI"
          /\ sdf_pointcloud.points = LastEv.points
          /\ DenseExact(sdf_pointcloud.points)

\* A dense cloud of several points was just published from a map that also
\* holds unobserved voxels and a voxel fused from two samples.
C1_Witness ==
    /\ JustPublished("dense")
    /\ Len(sdf_pointcloud.points) >= 3
    /\ AllocatedVoxels \ ObservedVoxels # {}
    /\ \E bv \in ObservedVoxels : VoxelOf(bv).weight >= 2

(***************************************************************************)
(* C2.  In every reachable state of the map the surface extraction         *)
(* (publishTsdfSurfacePoints) emits a point for a voxel of an allocated    *)
(* block iff weight > 0 and |distance| < surface_distance_thresh, once per *)
(* such voxel and with the voxel's colour; a voxel whose |distance| equals *)
(* the threshold is not emitted.                                           *)
(***************************************************************************)
C2_SurfaceExtractionExact ==
    LET surface == SurfaceCloud(tsdf_map, block_order)
    IN  /\ SurfaceExact(surface)
        /\ \A bv \in AllocatedVoxels :
              Abs(VoxelOf(bv).distance) = surface_distance_thresh =>
                  PlacesOf(surface, bv) = {}
        /\ JustPublished("surface") =>
              /\ sdf_pointcloud.type = "PointXYZRGB"
              /\ sdf_pointcloud.points = LastEv.points
              /\ SurfaceExact(sdf_pointcloud.points)

\* A surface cloud was just published from a map with an observed voxel at
\* distance +threshold, one at -threshold, and voxels inside the band.
C2_Witness ==
    /\ JustPublished("surface")
    /\ Len(sdf_pointcloud.points) >= 2
    /\ \E bv \in ObservedVoxels :
          VoxelOf(bv).distance = surface_distance_thresh
    /\ \E bv \in ObservedVoxels :
          VoxelOf(bv).distance = -surface_distance_thresh

(***************************************************************************)
(* C3.  After any sequence of integrations, neither extraction emits a     *)
(* voxel whose weight is 0, whatever its stored distance and colour (a     *)
(* never-observed voxel stores distance 0, inside the surface band).       *)
(***************************************************************************)
C3_UnobservedNeverEmitted ==
    LET dense   == DenseCloud(tsdf_map, block_order)
        surface == SurfaceCloud(tsdf_map, block_order)
    IN  \A bv \in AllocatedVoxels :
            VoxelOf(bv).weight = 0 =>
                /\ PlacesOf(dense, bv) = {}
                /\ PlacesOf(surface, bv) = {}
                /\ JustPublished("surface") =>
                      PlacesOf(sdf_pointcloud.points, bv) = {}
                /\ JustPublished("dense") =>
                      PlacesOf(sdf_pointcloud.points, bv) = {}

\* After an integration, a non-empty surface cloud was published from a map
\* that holds a weight-0 voxel with distance 0.
C3_Witness ==
    /\ JustPublished("surface")
    /\ IntegrateEvents # {}
    /\ sdf_pointcloud.points # << >>
    /\ \E bv \in AllocatedVoxels :
          VoxelOf(bv).weight = 0 /\ VoxelOf(bv).distance = 0

(***************************************************************************)
(* C8.  In every reachable state of the map, the voxels the surface        *)
(* extraction emits are among those the dense extraction emits, and each   *)
(* of them has |distance| < surface_distance_thresh.                       *)
(***************************************************************************)
C8_SurfaceSubsetOfDense ==
    LET surface     == SurfaceCloud(tsdf_map, block_order)
        surface_set == VoxelSetOf(surface)
        dense_set   == VoxelSetOf(DenseCloud(tsdf_map, block_order))
    IN  /\ surface_set \subseteq dense_set
        /\ \A bv \in surface_set :
              Abs(VoxelOf(bv).distance) < surface_distance_thresh
        /\ \A i \in 1 .. Len(surface) :
              \E bv \in surface_set : i \in PlacesOf(surface, bv)

\* The surface set is non-empty and properly inside the dense set.
C8_Witness ==
    LET surface_set == VoxelSetOf(SurfaceCloud(tsdf_map, block_order))
        dense_set   == VoxelSetOf(DenseCloud(tsdf_map, block_order))
    IN  /\ surface_set # {}
        /\ dense_set \ surface_set # {}
        /\ JustPublished("surface")

(***************************************************************************)
(* C9.  Extraction from a map without allocated blocks is no error: both   *)
(* extractions yield the empty cloud, and the extraction the constructor   *)
(* runs on the freshly constructed map, before any observation was         *)
(* integrated, publishes the empty cloud and the node goes on to spin.     *)
(***************************************************************************)
C9_EmptyMapEmptyClouds ==
    /\ DOMAIN tsdf_map = {} =>
          /\ DenseCloud(tsdf_map, block_order) = << >>
          /\ SurfaceCloud(tsdf_map, block_order) = << >>
          /\ \A i \in 1 .. Len(log) :
                log[i].ev = "publish" => log[i].points = << >>
    /\ \A i \in 1 .. Len(log) :
          /\ log[i].ev = "publish"
          /\ log[i].by = "constructor"
          /\ \A j \in 1 .. i - 1 : log[j].ev # "integrate"
          => /\ log[i].points = << >>
             /\ log[i].kind = "surface"
             /\ pc \in {"spin"} \cup HandlerPcs

\* The constructor has published from the map as constructed, and the node
\* spins.
C9_Witness ==
    /\ Len(log) >= 1
    /\ log[1].ev = "publish"
    /\ log[1].by = "constructor"
    /\ log[1].points = << >>
    /\ sdf_pointcloud.type = "PointXYZRGB"
    /\ sdf_pointcloud.points = << >>
    /\ DOMAIN tsdf_map = {}
    /\ pc = "spin"

(***************************************************************************)
(* C5.  As stated: after each integrated observation both the dense cloud  *)
(* and the surface cloud are published.                                    *)
(***************************************************************************)
C5_Original_BothPublished ==
    \A i \in IntegrateEvents :
        msg.id # log[i].obs =>
            /\ \E j \in PublishEvents("dense") : log[j].obs = log[i].obs
            /\ \E j \in PublishEvents("surface") : log[j].obs = log[i].obs

(***************************************************************************)
(* C5, amended.  Every extraction cycle hands exactly one point sequence   *)
(* to the transport, the surface cloud: after each integrated observation  *)
(* the surface cloud of the map is published once, and the node never      *)
(* publishes the dense cloud.                                              *)
(***************************************************************************)
C5_SurfaceOnlyPublished ==
    /\ PublishEvents("dense") = {}
    /\ sdf_pointcloud.type \in {"none", "PointXYZRGB"}
    /\ \A i \in IntegrateEvents :
          msg.id # log[i].obs =>
              Cardinality({ j \in PublishEvents("surface") :
                              log[j].obs = log[i].obs }) = 1
    /\ JustPublished("surface") =>
          sdf_pointcloud.points = SurfaceCloud(tsdf_map, block_order)

\* A callback has integrated an observation, published a non-empty surface
\* cloud and returned.
C5_Witness ==
    /\ pc = "spin"
    /\ JustPublished("surface")
    /\ LastEv.obs > 0
    /\ LastEv.points # << >>
    /\ \E i \in IntegrateEvents : log[i].obs = LastEv.obs /\ log[i].n > 0

(***************************************************************************)
(* C6.  As stated: each observation the callback is called with triggers   *)
(* one integration call followed by one extraction-and-publish cycle.      *)
(***************************************************************************)
C6_Original_EveryObservationIntegrated ==
    \A i \in 1 .. Len(log) :
        log[i].ev = "lookup" /\ msg.id # log[i].obs =>
            \E j \in IntegrateEvents :
                /\ j > i
                /\ log[j].obs = log[i].obs
                /\ \E k \in PublishEvents("surface") :
                      k > j /\ log[k].obs = log[i].obs

(***************************************************************************)
(* C6, amended.  Each observation the callback is called with and for      *)
(* which the transform lookup succeeds triggers exactly one integration    *)
(* call and then exactly one extraction-and-publish cycle (an observation  *)
(* whose lookup fails triggers neither).  The observation is fully         *)
(* integrated and                                                          *)
(* its extraction has run to completion before the next observation is     *)
(* accepted: what the node does for one observation is never interleaved   *)
(* with what it does for another, and no extraction runs while an          *)
(* integrate call is in flight.                                            *)
(***************************************************************************)
C6_IntegrateThenExtractPerObservation ==
    /\ \A i \in 1 .. Len(log) :
          /\ log[i].ev = "lookup" =>
                /\ \A j \in 1 .. Len(log) :
                      log[j].ev = "lookup" /\ log[j].obs = log[i].obs => j = i
                /\ \A j \in 1 .. i - 1 :
                      log[j].obs < log[i].obs
                /\ IF log[i].ok
                   THEN IF i = Len(log)
                        THEN /\ pc \in {"convert", "integratePointCloud"}
                             /\ msg.id = log[i].obs
                        ELSE /\ log[i + 1].ev = "integrate"
                             /\ log[i + 1].obs = log[i].obs
                   ELSE /\ msg.id # log[i].obs
                        /\ \A j \in 1 .. Len(log) :
                              log[j].obs = log[i].obs => j = i
          /\ log[i].ev = "integrate" =>
                /\ i > 1
                /\ log[i - 1].ev = "lookup"
                /\ log[i - 1].obs = log[i].obs
                /\ IF i = Len(log)
                   THEN pc = "publish" /\ msg.id = log[i].obs
                   ELSE /\ log[i + 1].ev = "publish"
                        /\ log[i + 1].obs = log[i].obs
          /\ log[i].ev = "publish" /\ log[i].by = "callback" =>
                /\ i > 1
                /\ log[i - 1].ev = "integrate"
                /\ log[i - 1].obs = log[i].obs
                /\ msg.id # log[i].obs
    /\ pc = "publish" =>
          /\ next_pt = Len(points_C) + 1
          /\ LastEv.ev = "integrate"
          /\ LastEv.n = Len(points_C)
    /\ pc \in HandlerPcs <=> msg # NoMsg
    /\ pc = "integratePointCloud" => ~ JustPublished("surface")

\* Two observations were each integrated and then extracted, one after the
\* other, and the node waits for the next.
C6_Witness ==
    /\ pc = "spin"
    /\ Cardinality(IntegrateEvents) >= 2
    /\ \A i \in IntegrateEvents :
          /\ log[i].n > 0
          /\ log[i + 1].ev = "publish"
          /\ log[i + 1].points # << >>

(***************************************************************************)
(* C4, as stated.  When the pose provider can resolve no transform for an  *)
(* observation (neither at its stamp nor the latest one), the observation  *)
(* is dropped: no integrate call is made for it.  When the transform at    *)
(* the stamp or the latest transform resolves, the observation is          *)
(* integrated.                                                             *)
(***************************************************************************)
\* Some transform resolves for the observation of the lookup e: the one the
\* node asked for, or the latest one.
Resolves(e) == e.returned \/ e.fallback

C4_Original_AnyTransformIntegrates ==
    \A i \in 1 .. Len(log) :
        log[i].ev = "lookup" =>
            IF ~ Resolves(log[i])
            THEN /\ ~ log[i].ok
                 /\ \A j \in 1 .. Len(log) : log[j].obs = log[i].obs => j = i
                 /\ msg.id # log[i].obs
            ELSE /\ log[i].ok
                 /\ msg.id # log[i].obs =>
                       \E j \in IntegrateEvents :
                           j > i /\ log[j].obs = log[i].obs

(***************************************************************************)
(* C4, amended.  The node makes one lookup for an observation: at the      *)
(* stamp when canTransform says the stamp can be resolved, at the latest   *)
(* time otherwise.  The observation is integrated when that lookup         *)
(* returns, and dropped when it throws; the fallback is not tried after a  *)
(* lookup at the stamp has thrown.  So an observation for which no         *)
(* transform resolves at all is dropped.  A dropped observation gets no    *)
(* integrate call, the map (its blocks and every voxel) is unchanged,      *)
(* nothing is published, the callback returns to the spinner and the       *)
(* spinner can take the next message.                                      *)
(***************************************************************************)
C4_DropState ==
    /\ \A i \in 1 .. Len(log) :
          log[i].ev = "lookup" =>
              /\ log[i].ok <=> log[i].returned
              /\ ~ Resolves(log[i]) => ~ log[i].ok
              /\ IF log[i].ok
                 THEN msg.id # log[i].obs =>
                         \E j \in IntegrateEvents :
                             j > i /\ log[j].obs = log[i].obs
                 ELSE /\ \A j \in 1 .. Len(log) :
                            log[j].obs = log[i].obs => j = i
                      /\ msg.id # log[i].obs
    /\ pc = "spin" /\ sub_queue # << >> => ENABLED Dispatch

C4_DropStep ==
    /\ Len(log') = Len(log) + 1
    /\ log'[Len(log')].ev = "lookup"
    /\ ~ log'[Len(log')].ok
    => /\ tsdf_map' = tsdf_map
       /\ block_order' = block_order
       /\ sdf_pointcloud' = sdf_pointcloud
       /\ pc' = ret
       /\ pc' \in {"spin", "spinOnce"}
       /\ msg' = NoMsg

C4_LookupMadeDecidesIntegration == [] C4_DropState /\ [][C4_DropStep]_vars

\* While the map held observed voxels, an observation was dropped because
\* the lookup at the stamp threw after canTransform had said yes, although
\* the latest transform was there; another observation was integrated with
\* the latest transform.
C4_Witness ==
    /\ pc = "spin"
    /\ \E i \in 1 .. Len(log) :
          /\ log[i].ev = "lookup"
          /\ ~ log[i].ok
          /\ log[i].can
          /\ log[i].fallback
    /\ \E j \in IntegrateEvents :
          /\ log[j].n > 0
          /\ log[j - 1].ev = "lookup"
          /\ ~ log[j - 1].can
          /\ log[j - 1].returned
    /\ ObservedVoxels # {}

(***************************************************************************)
(* C7.  Both extractions only read the map: a publish step leaves the set  *)
(* of allocated blocks and every voxel's distance, weight and colour as    *)
(* they were, and an extraction repeated with no integration in between    *)
(* yields the same sequence, element for element.                          *)
(***************************************************************************)
\* The publish events i and j of a history are of one kind and no integrate
\* call lies between them.
SameKindNoIntegrationBetween(h, i, j) ==
    /\ i < j
    /\ h[i].ev = "publish"
    /\ h[j].ev = "publish"
    /\ h[i].kind = h[j].kind
    /\ \A k \in i + 1 .. j - 1 : h[k].ev # "integrate"

C7_PublishStep ==
    /\ Len(log') = Len(log) + 1
    /\ log'[Len(log')].ev = "publish"
    => /\ tsdf_map' = tsdf_map
       /\ block_order' = block_order
       /\ \A i \in 1 .. Len(log) :
             SameKindNoIntegrationBetween(log', i, Len(log')) =>
                 log'[i].points = log'[Len(log')].points

C7_ExtractionPureAndIdempotent == [][C7_PublishStep]_vars

\* Each extraction ran twice on an unchanged map that holds observed
\* voxels, and gave a non-empty cloud each time.
C7_Witness ==
    /\ \E i, j \in PublishEvents("dense") :
          /\ SameKindNoIntegrationBetween(log, i, j)
          /\ log[i].points # << >>
          /\ log[j].points = log[i].points
    /\ \E i, j \in PublishEvents("surface") :
          /\ SameKindNoIntegrationBetween(log, i, j)
          /\ log[i].points # << >>

(***************************************************************************)
(* C10.  As stated: for any incoming observation, the points and the       *)
(* colours handed to integratePointCloud have the same length, are the     *)
(* finite points of the observation with their colours, in order, and hold *)
(* no point that is non-finite.                                            *)
(***************************************************************************)
\* The finite points of a cloud, in order.
FinitePointsOf(cloud) == SelectSeq(cloud.points, IsFinitePoint)

C10_IntegratePrecondition ==
    pc = "integratePointCloud" =>
        /\ Len(points_C) = Len(colors)
        /\ \A i \in 1 .. Len(points_C) : IsFinitePoint(points_C[i])
        /\ Len(points_C) = Len(FinitePointsOf(msg.cloud))
        /\ \A i \in 1 .. Len(points_C) :
              /\ XYZ(points_C[i]) = XYZ(FinitePointsOf(msg.cloud)[i])
              /\ i <= Len(colors) =>
                    colors[i] = Color(FinitePointsOf(msg.cloud)[i].r,
                                      FinitePointsOf(msg.cloud)[i].g,
                                      FinitePointsOf(msg.cloud)[i].b,
                                      FinitePointsOf(msg.cloud)[i].a)

=============================================================================
